---------------------------- MODULE Spec2Model ----------------------------
(***************************************************************************)
(* A model of the CHIP-8 interpreter of chip8_rust: the Chip8 struct of    *)
(* src/chip8.rs with its fetch/decode/execute routine `emulate`, and the   *)
(* host loop of src/main.rs that drives it (key events, the guarded call   *)
(* of emulate, the redraw).                                                *)
(*                                                                         *)
(* A Rust panic is modelled as an outcome: every routine returns the       *)
(* struct as the panic left it together with the kind of panic            *)
(* ("none" when it returned normally).  Integer overflow of a usize is     *)
(* build dependent (a panic with overflow checks, a wrap without); the     *)
(* build profile is the variable overflow_checks.                          *)
(***************************************************************************)
EXTENDS Integers, Sequences, FiniteSets, TLC

(***************************************************************************)
(* Program constants                                                       *)
(***************************************************************************)
FONT_SET ==
  << 240, 144, 144, 144, 240,     32,  96,  32,  32, 112,
     240,  16, 240, 128, 240,    240,  16, 240,  16, 240,
     144, 144, 240,  16,  16,    240, 128, 240,  16, 240,
     240, 128, 240, 144, 240,    240,  16,  32,  64,  64,
     240, 144, 240, 144, 240,    240, 144, 240,  16, 240,
     240, 144, 240, 144, 144,    224, 144, 224, 144, 224,
     240, 128, 128, 128, 240,    224, 144, 144, 144, 224,
     240, 128, 240, 128, 240,    240, 128, 240, 128, 128 >>

MEM_SIZE == 4096

STACK_SIZE == 24

REG_SIZE == 16

SCREEN_WIDTH == 64

SCREEN_HEIGHT == 32

KEY_SIZE == 16

PC_START == 512

\* usize is carried modulo 2^16, the narrowest usize Rust has: TLC's integers
\* are 32 bits wide, and the only wrapped value the code ever uses
\* (sp after 0 - 1) is only compared with STACK_SIZE, with the same outcome
\* for every width.
USIZE_MAX == 65535

\* Option<usize>: None is the empty sequence, Some(x) the sequence << x >>
None == << >>

Some(x) == << x >>

(***************************************************************************)
(* Bounds of the model                                                     *)
(***************************************************************************)
\* key codes 0..MaxKey are the keys the user touches
MaxKey == 1

\* the number of key events polled in one run
MaxEvents == 3

(***************************************************************************)
(* Outcomes                                                                *)
(***************************************************************************)
Ok(e) == [emu |-> e, panic |-> "none"]

Panic(e, kind) == [emu |-> e, panic |-> kind]

(***************************************************************************)
(* Bit operations on bytes                                                 *)
(***************************************************************************)
RECURSIVE BitAnd(_, _)
BitAnd(a, b) ==
  IF a = 0 \/ b = 0 THEN 0
  ELSE (a % 2) * (b % 2) + 2 * BitAnd(a \div 2, b \div 2)

RECURSIVE BitOr(_, _)
BitOr(a, b) ==
  IF a = 0 THEN b
  ELSE IF b = 0 THEN a
  ELSE (IF a % 2 = 1 \/ b % 2 = 1 THEN 1 ELSE 0) + 2 * BitOr(a \div 2, b \div 2)

RECURSIVE BitXor(_, _)
BitXor(a, b) ==
  IF a = 0 THEN b
  ELSE IF b = 0 THEN a
  ELSE ((a + b) % 2) + 2 * BitXor(a \div 2, b \div 2)

(***************************************************************************)
(* The two large arrays, memory: [u8; MEM_SIZE] and screen: [u8; 64 * 32], *)
(* are held as the function from the indices of their non-zero elements to *)
(* those elements; every other element of the array is 0.  Two arrays are  *)
(* equal exactly when these functions are.  The bounds check of an index   *)
(* is made where the code indexes, before Get or Set is used.              *)
(***************************************************************************)
Get(arr, i) == IF i \in DOMAIN arr THEN arr[i] ELSE 0

Set(arr, i, b) ==
  IF b = 0
  THEN [j \in DOMAIN arr \ {i} |-> arr[j]]
  ELSE [j \in DOMAIN arr \cup {i} |-> IF j = i THEN b ELSE arr[j]]

\* the array [0; n]
Zeroed == [j \in {} |-> 0]

(***************************************************************************)
(* Chip8::init                                                             *)
(***************************************************************************)
\* init with the font loop stopping one glyph short (no glyph F)
init_without_last_glyph ==
  [ opcode      |-> 0,
    memory      |-> [a \in { i \in 0..(Len(FONT_SET) - 6) : FONT_SET[i + 1] # 0 } |->
                       FONT_SET[a + 1]],
    v           |-> [i \in 0..(REG_SIZE - 1) |-> 0],
    addr_reg    |-> 0,
    pc          |-> PC_START,
    stack       |-> [i \in 0..(STACK_SIZE - 1) |-> 0],
    sp          |-> 0,
    screen      |-> Zeroed,
    draw_flag   |-> FALSE,
    key         |-> [i \in 0..(KEY_SIZE - 1) |-> 0],
    delay_timer |-> 0,
    sound_timer |-> 0,
    key_to_wait_reg |-> None ]

init ==
  [ opcode      |-> 0,
    memory      |-> [a \in { i \in 0..(Len(FONT_SET) - 1) : FONT_SET[i + 1] # 0 } |->
                       FONT_SET[a + 1]],
    v           |-> [i \in 0..(REG_SIZE - 1) |-> 0],
    addr_reg    |-> 0,
    pc          |-> PC_START,
    stack       |-> [i \in 0..(STACK_SIZE - 1) |-> 0],
    sp          |-> 0,
    screen      |-> Zeroed,
    draw_flag   |-> FALSE,
    key         |-> [i \in 0..(KEY_SIZE - 1) |-> 0],
    delay_timer |-> 0,
    sound_timer |-> 0,
    \* the field main.rs reads and clears; chip8.rs never declares or sets it
    key_to_wait_reg |-> None ]

(***************************************************************************)
(* Decoded fields of an opcode word                                        *)
(***************************************************************************)
OpX(op) == (op \div 256) % 16

OpY(op) == (op \div 16) % 16

OpN(op) == op % 16

OpNN(op) == op % 256

OpNNN(op) == op % 4096

OpFamily(op) == op \div 4096

(***************************************************************************)
(* The kinds of panic                                                      *)
(***************************************************************************)
\* panic!("Unknown opcode: 0x{:04X}!", ..)
UnknownOpcode == "Unknown opcode"

\* panic!("Font set is only for character 0 to F!")
FontSetPanic == "Font set is only for character 0 to F!"

\* an array or slice index beyond the length
IndexOutOfBounds == "index out of bounds"

\* usize arithmetic overflow in a build with overflow checks
SubtractOverflow == "attempt to subtract with overflow"

(***************************************************************************)
(* Opcode families 0..7                                                    *)
(***************************************************************************)
\* opcode_0 with the last arm left as a no-op that skips the word
opcode_0_skips_unknown(e, oc) ==
  IF e.opcode = \h00E0 THEN
    Ok([e EXCEPT !.screen = Zeroed, !.pc = e.pc + 2, !.draw_flag = TRUE])
  ELSE IF e.opcode = \h00EE THEN
    IF e.sp = 0 /\ oc THEN Panic(e, SubtractOverflow)
    ELSE LET sp1 == IF e.sp = 0 THEN USIZE_MAX ELSE e.sp - 1
             e1  == [e EXCEPT !.sp = sp1]
         IN  IF sp1 >= STACK_SIZE THEN Panic(e1, IndexOutOfBounds)
             ELSE Ok([e1 EXCEPT !.pc = e.stack[sp1]])
  ELSE Ok([e EXCEPT !.pc = e.pc + 2])

\* opcode_0 with the arm 0x00E0 not setting draw_flag
opcode_0_clear_without_flag(e, oc) ==
  IF e.opcode = \h00E0 THEN
    Ok([e EXCEPT !.screen = Zeroed, !.pc = e.pc + 2])
  ELSE IF e.opcode = \h00EE THEN
    IF e.sp = 0 /\ oc THEN Panic(e, SubtractOverflow)
    ELSE LET sp1 == IF e.sp = 0 THEN USIZE_MAX ELSE e.sp - 1
             e1  == [e EXCEPT !.sp = sp1]
         IN  IF sp1 >= STACK_SIZE THEN Panic(e1, IndexOutOfBounds)
             ELSE Ok([e1 EXCEPT !.pc = e.stack[sp1]])
  ELSE Panic(e, UnknownOpcode)

opcode_0(e, oc) ==
  IF e.opcode = \h00E0 THEN
    Ok([e EXCEPT !.screen = Zeroed,
                 !.pc = e.pc + 2,
                 !.draw_flag = TRUE])
  ELSE IF e.opcode = \h00EE THEN
    IF e.sp = 0 /\ oc THEN Panic(e, SubtractOverflow)
    ELSE LET sp1 == IF e.sp = 0 THEN USIZE_MAX ELSE e.sp - 1
             e1  == [e EXCEPT !.sp = sp1]
         IN  IF sp1 >= STACK_SIZE THEN Panic(e1, IndexOutOfBounds)
             ELSE Ok([e1 EXCEPT !.pc = e.stack[sp1]])
  ELSE Panic(e, UnknownOpcode)

opcode_1(e) == Ok([e EXCEPT !.pc = OpNNN(e.opcode)])

\* opcode_2 pushing the address of the call instead of the one after it
opcode_2_pushes_pc(e) ==
  IF e.sp >= STACK_SIZE THEN Panic(e, IndexOutOfBounds)
  ELSE Ok([e EXCEPT !.stack[e.sp] = e.pc,
                    !.sp = e.sp + 1,
                    !.pc = OpNNN(e.opcode)])

opcode_2(e) ==
  IF e.sp >= STACK_SIZE THEN Panic(e, IndexOutOfBounds)
  ELSE Ok([e EXCEPT !.stack[e.sp] = e.pc + 2,
                    !.sp = e.sp + 1,
                    !.pc = OpNNN(e.opcode)])

opcode_3(e) ==
  IF e.v[OpX(e.opcode)] = OpNN(e.opcode)
  THEN Ok([e EXCEPT !.pc = e.pc + 4])
  ELSE Ok([e EXCEPT !.pc = e.pc + 2])

opcode_4(e) ==
  IF e.v[OpX(e.opcode)] # OpNN(e.opcode)
  THEN Ok([e EXCEPT !.pc = e.pc + 4])
  ELSE Ok([e EXCEPT !.pc = e.pc + 2])

opcode_5(e) ==
  IF e.v[OpX(e.opcode)] = e.v[OpY(e.opcode)]
  THEN Ok([e EXCEPT !.pc = e.pc + 4])
  ELSE Ok([e EXCEPT !.pc = e.pc + 2])

opcode_6(e) ==
  Ok([e EXCEPT !.v[OpX(e.opcode)] = OpNN(e.opcode), !.pc = e.pc + 2])

opcode_7(e) ==
  Ok([e EXCEPT !.v[OpX(e.opcode)] = (e.v[OpX(e.opcode)] + OpNN(e.opcode)) % 256,
               !.pc = e.pc + 2])

(***************************************************************************)
(* Opcode family 8: the flag is written first, the result second           *)
(***************************************************************************)
\* v[0xF] := flag, then v[x] := result, then pc += 2
FlagThenResult(e, flag, result) ==
  Ok([e EXCEPT !.v = [[e.v EXCEPT ![15] = flag] EXCEPT ![OpX(e.opcode)] = result],
               !.pc = e.pc + 2])

\* the arm 0x0004 clearing the flag before it adds, and raising it after
opcode_8_4_clears_flag_first(e) ==
  LET v0 == [e.v EXCEPT ![15] = 0]
      x  == OpX(e.opcode)
      y  == OpY(e.opcode)
      v1 == [v0 EXCEPT ![x] = (v0[x] + v0[y]) % 256]
  IN  Ok([e EXCEPT !.v = IF v0[x] + v0[y] > 255 THEN [v1 EXCEPT ![15] = 1] ELSE v1,
                   !.pc = e.pc + 2])

\* the arm 0x0004: overflowing_add of the two registers, flag, result
opcode_8_4(e) ==
  LET vx == e.v[OpX(e.opcode)]
      vy == e.v[OpY(e.opcode)]
  IN  FlagThenResult(e, IF vx + vy > 255 THEN 1 ELSE 0, (vx + vy) % 256)

\* the arm 0x0005 taking equal operands for a borrow
opcode_8_5_borrows_on_equal(e) ==
  LET vx == e.v[OpX(e.opcode)]
      vy == e.v[OpY(e.opcode)]
  IN  FlagThenResult(e, IF vx <= vy THEN 0 ELSE 1, (vx - vy) % 256)

\* the arm 0x0005: overflowing_sub v[x] - v[y]
opcode_8_5(e) ==
  LET vx == e.v[OpX(e.opcode)]
      vy == e.v[OpY(e.opcode)]
  IN  FlagThenResult(e, IF vx < vy THEN 0 ELSE 1, (vx - vy) % 256)

\* the arm 0x0006 shifting v[y] into v[x]
opcode_8_6_shifts_vy(e) ==
  LET y  == OpY(e.opcode)
      v1 == [e.v EXCEPT ![15] = e.v[y] % 2]
  IN  Ok([e EXCEPT !.v = [v1 EXCEPT ![OpX(e.opcode)] = v1[y] \div 2],
                   !.pc = e.pc + 2])

\* the arm 0x0006: v[0xF] = v[x] & 1; then v[x] >>= 1 reads v[x] again
opcode_8_6(e) ==
  LET x  == OpX(e.opcode)
      v1 == [e.v EXCEPT ![15] = e.v[x] % 2]
  IN  Ok([e EXCEPT !.v = [v1 EXCEPT ![x] = v1[x] \div 2],
                   !.pc = e.pc + 2])

\* the arm 0x0007: overflowing_sub v[y] - v[x]
opcode_8_7(e) ==
  LET vx == e.v[OpX(e.opcode)]
      vy == e.v[OpY(e.opcode)]
  IN  FlagThenResult(e, IF vy < vx THEN 0 ELSE 1, (vy - vx) % 256)

\* the arm 0x000E: v[0xF] = (v[x] & 0x80) >> 7; then v[x] <<= 1 reads v[x]
\* again
opcode_8_e(e) ==
  LET x  == OpX(e.opcode)
      v1 == [e.v EXCEPT ![15] = e.v[x] \div 128]
  IN  Ok([e EXCEPT !.v = [v1 EXCEPT ![x] = (v1[x] * 2) % 256],
                   !.pc = e.pc + 2])

opcode_8(e) ==
  LET x  == OpX(e.opcode)
      n  == OpN(e.opcode)
      vx == e.v[x]
      vy == e.v[OpY(e.opcode)]
      Plain(result) == Ok([e EXCEPT !.v[x] = result, !.pc = e.pc + 2])
  IN  CASE n = 0 -> Plain(vy)
        [] n = 1 -> Plain(BitOr(vx, vy))
        [] n = 2 -> Plain(BitAnd(vx, vy))
        [] n = 3 -> Plain(BitXor(vx, vy))
        [] n = 4 -> opcode_8_4(e)
        [] n = 5 -> opcode_8_5(e)
        [] n = 6 -> opcode_8_6(e)
        [] n = 7 -> opcode_8_7(e)
        [] n = 14 -> opcode_8_e(e)
        [] OTHER -> Panic(e, UnknownOpcode)

(***************************************************************************)
(* Opcode families 9..C                                                    *)
(***************************************************************************)
opcode_9(e) ==
  IF e.v[OpX(e.opcode)] # e.v[OpY(e.opcode)]
  THEN Ok([e EXCEPT !.pc = e.pc + 4])
  ELSE Ok([e EXCEPT !.pc = e.pc + 2])

opcode_a(e) == Ok([e EXCEPT !.addr_reg = OpNNN(e.opcode), !.pc = e.pc + 2])

opcode_b(e) == Ok([e EXCEPT !.pc = e.v[0] + OpNNN(e.opcode)])

\* secret is the byte rand::thread_rng().gen_range(0, 256) returned
opcode_c(e, secret) ==
  Ok([e EXCEPT !.v[OpX(e.opcode)] = BitAnd(secret, OpNN(e.opcode)),
               !.pc = e.pc + 2])

(***************************************************************************)
(* Opcode family D: the sprite loop, pixel by pixel.  A panic in the loop  *)
(* leaves the pixels and the flag written so far.                          *)
(***************************************************************************)
\* DrawLoop with  screen[coordinate] += 1  in place of  ^= 1
RECURSIVE DrawLoop_adds(_, _, _, _, _, _)
DrawLoop_adds(e, x, y, h, y_row, x_col) ==
  IF y_row >= h THEN Ok([e EXCEPT !.pc = e.pc + 2, !.draw_flag = TRUE])
  ELSE IF y_row + e.addr_reg >= MEM_SIZE THEN Panic(e, IndexOutOfBounds)
  ELSE IF x_col >= 8 THEN DrawLoop_adds(e, x, y, h, y_row + 1, 0)
  ELSE
    LET sprite == Get(e.memory, y_row + e.addr_reg)
    IN  IF (sprite \div (2 ^ (7 - x_col))) % 2 = 0
        THEN DrawLoop_adds(e, x, y, h, y_row, x_col + 1)
        ELSE
          LET coordinate == x + x_col + ((y + y_row) * SCREEN_WIDTH)
          IN  IF coordinate >= SCREEN_WIDTH * SCREEN_HEIGHT
              THEN Panic(e, IndexOutOfBounds)
              ELSE
                LET e1 == IF Get(e.screen, coordinate) = 1
                          THEN [e EXCEPT !.v[15] = 1] ELSE e
                    e2 == [e1 EXCEPT !.screen =
                             Set(e.screen, coordinate,
                                 (Get(e.screen, coordinate) + 1) % 256)]
                IN  DrawLoop_adds(e2, x, y, h, y_row, x_col + 1)

RECURSIVE DrawLoop(_, _, _, _, _, _)
DrawLoop(e, x, y, h, y_row, x_col) ==
  IF y_row >= h THEN Ok([e EXCEPT !.pc = e.pc + 2, !.draw_flag = TRUE])
  ELSE IF y_row + e.addr_reg >= MEM_SIZE THEN Panic(e, IndexOutOfBounds)
  ELSE IF x_col >= 8 THEN DrawLoop(e, x, y, h, y_row + 1, 0)
  ELSE
    LET sprite == Get(e.memory, y_row + e.addr_reg)
    IN  IF (sprite \div (2 ^ (7 - x_col))) % 2 = 0
        THEN DrawLoop(e, x, y, h, y_row, x_col + 1)
        ELSE
          LET coordinate == x + x_col + ((y + y_row) * SCREEN_WIDTH)
          IN  IF coordinate >= SCREEN_WIDTH * SCREEN_HEIGHT
              THEN Panic(e, IndexOutOfBounds)
              ELSE
                LET e1 == IF Get(e.screen, coordinate) = 1
                          THEN [e EXCEPT !.v[15] = 1] ELSE e
                    e2 == [e1 EXCEPT !.screen =
                             Set(e.screen, coordinate,
                                 BitXor(Get(e.screen, coordinate), 1))]
                IN  DrawLoop(e2, x, y, h, y_row, x_col + 1)

opcode_d(e) ==
  LET x == e.v[OpX(e.opcode)]
      y == e.v[OpY(e.opcode)]
      h == OpN(e.opcode)
  IN  DrawLoop([e EXCEPT !.v[15] = 0], x, y, h, 0, 0)

(***************************************************************************)
(* Opcode family E                                                         *)
(***************************************************************************)
\* opcode_e with the key index reduced to its low four bits
opcode_e_masks_key(e) ==
  LET x  == OpX(e.opcode)
      nn == OpNN(e.opcode)
      k  == e.v[x] % KEY_SIZE
  IN  IF nn = \h9E THEN
        IF e.key[k] # 0 THEN Ok([e EXCEPT !.pc = e.pc + 4])
        ELSE Ok([e EXCEPT !.pc = e.pc + 2])
      ELSE IF nn = \hA1 THEN
        IF e.key[k] = 0 THEN Ok([e EXCEPT !.pc = e.pc + 4])
        ELSE Ok([e EXCEPT !.pc = e.pc + 2])
      ELSE Panic(e, UnknownOpcode)

opcode_e(e) ==
  LET x  == OpX(e.opcode)
      nn == OpNN(e.opcode)
  IN  IF nn = \h9E THEN
        IF e.v[x] >= KEY_SIZE THEN Panic(e, IndexOutOfBounds)
        ELSE IF e.key[e.v[x]] # 0 THEN Ok([e EXCEPT !.pc = e.pc + 4])
        ELSE Ok([e EXCEPT !.pc = e.pc + 2])
      ELSE IF nn = \hA1 THEN
        IF e.v[x] >= KEY_SIZE THEN Panic(e, IndexOutOfBounds)
        ELSE IF e.key[e.v[x]] = 0 THEN Ok([e EXCEPT !.pc = e.pc + 4])
        ELSE Ok([e EXCEPT !.pc = e.pc + 2])
      ELSE Panic(e, UnknownOpcode)

(***************************************************************************)
(* Opcode family F                                                         *)
(***************************************************************************)
\* RegDump with the loop written  for i in 0..x
RECURSIVE RegDump_excludes_x(_, _, _)
RegDump_excludes_x(e, x, i) ==
  IF i >= x THEN Ok([e EXCEPT !.pc = e.pc + 2])
  ELSE IF e.addr_reg + i >= MEM_SIZE THEN Panic(e, IndexOutOfBounds)
  ELSE RegDump_excludes_x(
         [e EXCEPT !.memory = Set(e.memory, e.addr_reg + i, e.v[i])], x, i + 1)

\* for i in 0..x + 1 { memory[addr_reg + i] = v[i] }
RECURSIVE RegDump(_, _, _)
RegDump(e, x, i) ==
  IF i > x THEN Ok([e EXCEPT !.pc = e.pc + 2])
  ELSE IF e.addr_reg + i >= MEM_SIZE THEN Panic(e, IndexOutOfBounds)
  ELSE RegDump([e EXCEPT !.memory = Set(e.memory, e.addr_reg + i, e.v[i])],
               x, i + 1)

\* for i in 0..x + 1 { v[i] = memory[addr_reg + i] }
RECURSIVE RegLoad(_, _, _)
RegLoad(e, x, i) ==
  IF i > x THEN Ok([e EXCEPT !.pc = e.pc + 2])
  ELSE IF e.addr_reg + i >= MEM_SIZE THEN Panic(e, IndexOutOfBounds)
  ELSE RegLoad([e EXCEPT !.v[i] = Get(e.memory, e.addr_reg + i)], x, i + 1)

\* Bcd with the tens digit stored as v[x] / 10
Bcd_tens_unreduced(e, x) ==
  LET a  == e.addr_reg
      vx == e.v[x]
      e1 == [e  EXCEPT !.memory = Set(e.memory,  a,     vx \div 100)]
      e2 == [e1 EXCEPT !.memory = Set(e1.memory, a + 1, vx \div 10)]
      e3 == [e2 EXCEPT !.memory = Set(e2.memory, a + 2, (vx % 100) % 10)]
  IN  IF a >= MEM_SIZE THEN Panic(e, IndexOutOfBounds)
      ELSE IF a + 1 >= MEM_SIZE THEN Panic(e1, IndexOutOfBounds)
      ELSE IF a + 2 >= MEM_SIZE THEN Panic(e2, IndexOutOfBounds)
      ELSE Ok([e3 EXCEPT !.pc = e.pc + 2])

\* the three stores of FX33, each bounds-checked when it is made
Bcd(e, x) ==
  LET a  == e.addr_reg
      vx == e.v[x]
      e1 == [e  EXCEPT !.memory = Set(e.memory,  a,     vx \div 100)]
      e2 == [e1 EXCEPT !.memory = Set(e1.memory, a + 1, (vx \div 10) % 10)]
      e3 == [e2 EXCEPT !.memory = Set(e2.memory, a + 2, (vx % 100) % 10)]
  IN  IF a >= MEM_SIZE THEN Panic(e, IndexOutOfBounds)
      ELSE IF a + 1 >= MEM_SIZE THEN Panic(e1, IndexOutOfBounds)
      ELSE IF a + 2 >= MEM_SIZE THEN Panic(e2, IndexOutOfBounds)
      ELSE Ok([e3 EXCEPT !.pc = e.pc + 2])

\* the arm 0x0029 without the check of v[x], the product kept in a u8
opcode_f_29_unchecked(e) ==
  Ok([e EXCEPT !.addr_reg = (e.v[OpX(e.opcode)] * 5) % 256, !.pc = e.pc + 2])

\* the arm 0x0029: the font address of the character in v[x]
opcode_f_29(e) ==
  IF e.v[OpX(e.opcode)] > \h0F THEN Panic(e, FontSetPanic)
  ELSE Ok([e EXCEPT !.addr_reg = e.v[OpX(e.opcode)] * 5, !.pc = e.pc + 2])

opcode_f(e) ==
  LET x  == OpX(e.opcode)
      nn == OpNN(e.opcode)
  IN  CASE nn = \h07 -> Ok([e EXCEPT !.v[x] = e.delay_timer, !.pc = e.pc + 2])
        [] nn = \h0A -> Ok(e)      \* an empty arm ("TODO: wait for key pressed")
        [] nn = \h15 -> Ok([e EXCEPT !.delay_timer = e.v[x], !.pc = e.pc + 2])
        [] nn = \h18 -> Ok([e EXCEPT !.sound_timer = e.v[x], !.pc = e.pc + 2])
        [] nn = \h1E -> Ok([e EXCEPT !.addr_reg = e.addr_reg + e.v[x],
                                     !.pc = e.pc + 2])
        [] nn = \h29 -> opcode_f_29(e)
        [] nn = \h33 -> Bcd(e, x)
        [] nn = \h55 -> RegDump(e, x, 0)
        [] nn = \h65 -> RegLoad(e, x, 0)
        [] OTHER -> Panic(e, UnknownOpcode)

(***************************************************************************)
(* Chip8::emulate: fetch, dispatch, then the timers                        *)
(***************************************************************************)
\* UpdateTimers with the sound timer's update nested in the delay timer's
UpdateTimers_nested(e) ==
  IF e.delay_timer > 0
  THEN [e EXCEPT !.delay_timer = e.delay_timer - 1,
                 !.sound_timer = IF e.sound_timer > 0 THEN e.sound_timer - 1
                                 ELSE e.sound_timer]
  ELSE e

UpdateTimers(e) ==
  [e EXCEPT !.delay_timer = IF e.delay_timer > 0 THEN e.delay_timer - 1
                            ELSE e.delay_timer,
            !.sound_timer = IF e.sound_timer > 0 THEN e.sound_timer - 1
                            ELSE e.sound_timer]

Dispatch(e, oc, secret) ==
  LET f == OpFamily(e.opcode)
  IN  CASE f = 0  -> opcode_0(e, oc)
        [] f = 1  -> opcode_1(e)
        [] f = 2  -> opcode_2(e)
        [] f = 3  -> opcode_3(e)
        [] f = 4  -> opcode_4(e)
        [] f = 5  -> opcode_5(e)
        [] f = 6  -> opcode_6(e)
        [] f = 7  -> opcode_7(e)
        [] f = 8  -> opcode_8(e)
        [] f = 9  -> opcode_9(e)
        [] f = 10 -> opcode_a(e)
        [] f = 11 -> opcode_b(e)
        [] f = 12 -> opcode_c(e, secret)
        [] f = 13 -> opcode_d(e)
        [] f = 14 -> opcode_e(e)
        [] f = 15 -> opcode_f(e)

\* memory[pc] and memory[pc + 1] are bounds-checked reads: a panic there
\* leaves self.opcode as it was
\* a fetch that masks the address into the memory instead of checking it
Fetch_masks_pc(e) ==
  Ok([e EXCEPT !.opcode = Get(e.memory, e.pc % MEM_SIZE) * 256
                            + Get(e.memory, (e.pc + 1) % MEM_SIZE)])

Fetch(e) ==
  IF e.pc >= MEM_SIZE \/ e.pc + 1 >= MEM_SIZE THEN Panic(e, IndexOutOfBounds)
  ELSE Ok([e EXCEPT !.opcode = Get(e.memory, e.pc) * 256
                                 + Get(e.memory, e.pc + 1)])

\* emulate with the timer update ahead of the instruction
emulate_timers_first(e, oc, secret) ==
  LET f == Fetch(e)
  IN  IF f.panic # "none" THEN f
      ELSE Dispatch(UpdateTimers(f.emu), oc, secret)

emulate(e, oc, secret) ==
  LET f == Fetch(e)
  IN  IF f.panic # "none" THEN f
      ELSE LET r == Dispatch(f.emu, oc, secret)
           IN  IF r.panic # "none" THEN r
               ELSE Ok(UpdateTimers(r.emu))

(***************************************************************************)
(* Chip8::load_game: the slice memory[PC_START..buf_size + PC_START] is    *)
(* taken before anything is copied, and panics when it ends past memory    *)
(***************************************************************************)
SliceOutOfRange == "range end index out of range for slice"

\* load_game copying without the slice bounds, the address wrapping at the
\* end of the memory
load_game_wraps(e, buffer) ==
  LET dst == { (PC_START + i - 1) % MEM_SIZE : i \in 1..Len(buffer) }
      \* the byte written last to address a
      ByteAt(a) == LET i == ((a + MEM_SIZE - PC_START) % MEM_SIZE) + 1
                   IN  IF i + MEM_SIZE <= Len(buffer) THEN buffer[i + MEM_SIZE]
                       ELSE buffer[i]
  IN  Ok([e EXCEPT !.memory =
        [a \in (DOMAIN e.memory \ dst) \cup { d \in dst : ByteAt(d) # 0 } |->
           IF a \in dst THEN ByteAt(a) ELSE e.memory[a]]])

load_game(e, buffer) ==
  LET buf_size == Len(buffer)
  IN  IF buf_size + PC_START > MEM_SIZE THEN Panic(e, SliceOutOfRange)
      ELSE LET dst == PC_START..(buf_size + PC_START - 1)
           IN  Ok([e EXCEPT !.memory =
                 [a \in (DOMAIN e.memory \ dst)
                         \cup { d \in dst : buffer[d - PC_START + 1] # 0 } |->
                    IF a \in dst THEN buffer[a - PC_START + 1]
                    ELSE e.memory[a]]])

(***************************************************************************)
(* main.rs: the key handlers                                               *)
(***************************************************************************)
\* reg_keycode maps sixteen keycodes to 0x0..0xF and every other one to None
KeyCodes == 0..(KEY_SIZE - 1)

key_press(e, y) ==
  LET e1 == [e EXCEPT !.key[y] = 1]
  IN  IF e1.key_to_wait_reg # None
      THEN [e1 EXCEPT !.v[e1.key_to_wait_reg[1]] = y, !.key_to_wait_reg = None]
      ELSE e1

\* key_release ending the wait as key_press does
key_release_ends_wait(e, y) ==
  [e EXCEPT !.key[y] = 0, !.key_to_wait_reg = None]

key_release(e, y) == [e EXCEPT !.key[y] = 0]

(***************************************************************************)
(* Program images.  A program is given by the opcode words it places at    *)
(* addresses from PC_START on; the bytes between them are 0.               *)
(***************************************************************************)
MaxOf(S) == CHOOSE m \in S : \A n \in S : n <= m

\* P: a function from addresses to the 16-bit words stored there, big-endian
Image(P) ==
  [i \in 1..(MaxOf(DOMAIN P) + 2 - PC_START) |->
     LET a == PC_START + i - 1
     IN  IF a \in DOMAIN P THEN P[a] \div 256
         ELSE IF (a - 1) \in DOMAIN P THEN P[a - 1] % 256
         ELSE 0]

\* the words of a sequence, stored one after the other from PC_START
Rom(words) == Image([a \in {PC_START + 2 * (i - 1) : i \in 1..Len(words)} |->
                       words[((a - PC_START) \div 2) + 1]])

(***************************************************************************)
(* The programs the runs load                                              *)
(***************************************************************************)
\* the number of call sites and of call targets tried, less one
MaxCallIdx == 3

\* set both timers, then wait for a key
TimerWaitRom == Rom(<< \h6105, \hF115, \h6203, \hF218, \hF30A, \h6A01 >>)

WaitRom == Rom(<< \hF10A, \h6A07, \h1204 >>)

\* a subroutine that calls itself
RecursionRom == Rom(<< \h2200 >>)

\* main calls f at 0x206, f calls g at 0x204, both return, main spins
NestedRom == Rom(<< \h2206, \h1202, \h00EE, \h2204, \h00EE >>)

\* words run as one-instruction programs
SampleWords ==
  { \h0000, \h00E0, \h00EE, \h00F1, \h0123, \h1200, \h1FFF, \h2FFF, \h3000,
    \h4000, \h5AB0, \h5231, \h6AFF, \h7422, \h8120, \h823A, \h9120, \h9121,
    \hA4FE, \hBFFF, \hC00F, \hD001, \hE09E, \hE0A1, \hE2FF, \hF007, \hF20A,
    \hF015, \hF018, \hF01E, \hF029, \hF033, \hF055, \hF065, \hF777 }

CallSites == { PC_START + 5 * i : i \in 0..MaxCallIdx } \cup { MEM_SIZE - 2 }

CallTargets == { \h300 + 7 * j : j \in 0..MaxCallIdx }

\* jump to the call site A, call NNN from there, return at once
CallRom(A, NNN) ==
  IF A = PC_START
  THEN Image((A :> (\h2000 + NNN)) @@ (NNN :> \h00EE))
  ELSE Image((PC_START :> (\h1000 + A)) @@ (A :> (\h2000 + NNN)) @@ (NNN :> \h00EE))

\* programs whose program counter leaves the memory
EndRoms ==
  { Rom(<< \h60FF, \hBFFF >>),
    Image((PC_START :> \h1FFE) @@ ((MEM_SIZE - 2) :> \h6A01)),
    Image((PC_START :> \h1FFE) @@ ((MEM_SIZE - 2) :> \h3000)),
    Image((PC_START :> \h1FFC) @@ ((MEM_SIZE - 4) :> \h3000)),
    Image((PC_START :> \h1FFC) @@ ((MEM_SIZE - 4) :> \h9010)) }

\* the number of bytes by which the longest program file exceeds the room
\* from PC_START to the end of the memory
MaxExcess == 2

\* files of the word 1200 (jump to PC_START) repeated: one that fills the
\* memory from PC_START to its end, and longer ones
LongRoms ==
  { [i \in 1..(MEM_SIZE - PC_START + k) |-> IF i % 2 = 1 THEN \h12 ELSE 0] :
      k \in 0..MaxExcess }

\* an empty file
EmptyRom == << >>

\* draw glyph 0 at (0, 0), set the delay timer, draw it again (erasing it),
\* draw glyph 1, clear the screen, spin
ScreenRom ==
  Rom(<< \hA000, \hD015, \h6505, \hF515, \hD015, \hA005, \hD015, \h00E0,
         \h1210 >>)

ROMS ==
  { TimerWaitRom, WaitRom, RecursionRom, NestedRom, EmptyRom, ScreenRom }
    \cup { Rom(<< w >>) : w \in SampleWords }
    \cup { CallRom(A, NNN) : A \in CallSites, NNN \in CallTargets }
    \cup EndRoms
    \cup LongRoms

(***************************************************************************)
(* The state: the emulator main owns, the build, and where main stands     *)
(***************************************************************************)
VARIABLES
  my_chip8,         \* the Chip8 struct (main.rs:20)
  overflow_checks,  \* TRUE: a build that panics on integer overflow
  at,               \* main: "load", "loop" (poll and step), "draw",
                    \*       "quit", "panicked"
  panic,            \* the panic that ended the process, "none" while it runs
  result,           \* what the latest step did: "Executed", "Blocked",
                    \*   "Fatal"; "none" before the first step
  key_downs,        \* the number of key-downs handled since the latest step
  events            \* the number of key events handled

vars == << my_chip8, overflow_checks, at, panic, result, key_downs, events >>

Init ==
  /\ my_chip8 = init
  /\ overflow_checks \in BOOLEAN
  /\ at = "load"
  /\ panic = "none"
  /\ result = "none"
  /\ key_downs = 0
  /\ events = 0

\* main.rs:36  my_chip8.load_game(&args[1]).unwrap()
LoadGame ==
  /\ at = "load"
  /\ \E buffer \in ROMS :
       LET r == load_game(my_chip8, buffer)
       IN  /\ my_chip8' = r.emu
           /\ panic' = r.panic
           /\ at' = IF r.panic = "none" THEN "loop" ELSE "panicked"
  /\ UNCHANGED << overflow_checks, result, key_downs, events >>

\* File::open or read_to_end fails (chip8.rs:107-109): load_game returns the
\* error before it touches memory and the unwrap of main.rs:36 panics
UnwrapErr == "called Result::unwrap() on an Err value"

LoadGameFails ==
  /\ at = "load"
  /\ at' = "panicked"
  /\ panic' = UnwrapErr
  /\ UNCHANGED << my_chip8, overflow_checks, result, key_downs, events >>

\* main.rs:46-48  Event::KeyDown
KeyDown ==
  /\ at = "loop"
  /\ events < MaxEvents
  /\ \E y \in 0..MaxKey :
       /\ y \in KeyCodes
       /\ my_chip8' = key_press(my_chip8, y)
  /\ key_downs' = key_downs + 1
  /\ events' = events + 1
  /\ UNCHANGED << overflow_checks, at, panic, result >>

\* main.rs:49-51  Event::KeyUp
KeyUp ==
  /\ at = "loop"
  /\ events < MaxEvents
  /\ \E y \in 0..MaxKey :
       /\ y \in KeyCodes
       /\ my_chip8' = key_release(my_chip8, y)
  /\ events' = events + 1
  /\ UNCHANGED << overflow_checks, at, panic, result, key_downs >>

\* main.rs:43-45  Event::Quit
Quit ==
  /\ at = "loop"
  /\ at' = "quit"
  /\ UNCHANGED << my_chip8, overflow_checks, panic, result, key_downs, events >>

\* the bytes the random generator can return to the instruction at pc
Secrets(e) ==
  IF e.pc < MEM_SIZE /\ Get(e.memory, e.pc) \div 16 = 12 THEN 0..255 ELSE {0}

\* main.rs:59-61  if my_chip8.key_to_wait_reg == None { my_chip8.emulate(); }
Step ==
  /\ at = "loop"
  /\ IF my_chip8.key_to_wait_reg = None
     THEN \E secret \in Secrets(my_chip8) :
            LET r == emulate(my_chip8, overflow_checks, secret)
            IN  /\ my_chip8' = r.emu
                /\ panic' = r.panic
                /\ result' = IF r.panic = "none" THEN "Executed" ELSE "Fatal"
                /\ at' = IF r.panic = "none" THEN "draw" ELSE "panicked"
     ELSE /\ result' = "Blocked"
          /\ at' = "draw"
          /\ UNCHANGED << my_chip8, panic >>
  /\ key_downs' = 0
  /\ UNCHANGED << overflow_checks, events >>

\* main.rs:64-69  redraw when the flag is set, clear it, sleep
Draw ==
  /\ at = "draw"
  /\ my_chip8' = IF my_chip8.draw_flag
                 THEN [my_chip8 EXCEPT !.draw_flag = FALSE]
                 ELSE my_chip8
  /\ at' = "loop"
  /\ UNCHANGED << overflow_checks, panic, result, key_downs, events >>

Next == LoadGame \/ LoadGameFails \/ KeyDown \/ KeyUp \/ Quit \/ Step \/ Draw

Spec == Init /\ [][Next]_vars

(***************************************************************************)
(* Vocabulary of the properties                                            *)
(***************************************************************************)
\* the word stored at address a (a <= MEM_SIZE - 2)
WordAt(e, a) == Get(e.memory, a) * 256 + Get(e.memory, a + 1)

IsFx0a(op) == OpFamily(op) = 15 /\ OpNN(op) = \h0A

\* this step of the behaviour is a call of the step at main.rs:59-61
StepTaken == at = "loop" /\ at' \in {"draw", "panicked"}

\* this step of the behaviour is a step that runs emulate on a fetchable pc
Executes(w) ==
  /\ StepTaken
  /\ my_chip8.key_to_wait_reg = None
  /\ my_chip8.pc <= MEM_SIZE - 2
  /\ WordAt(my_chip8, my_chip8.pc) = w

\* PC, V0..VF, I, memory, stack, timers, framebuffer and key table agree
SameMachine(a, b) ==
  /\ a.pc = b.pc
  /\ a.v = b.v
  /\ a.addr_reg = b.addr_reg
  /\ a.memory = b.memory
  /\ a.stack = b.stack
  /\ a.sp = b.sp
  /\ a.delay_timer = b.delay_timer
  /\ a.sound_timer = b.sound_timer
  /\ a.screen = b.screen
  /\ a.key = b.key

\* the latest step executed FX0A and no key-down has been handled since
InKeyWait ==
  /\ result \in {"Executed", "Blocked"}
  /\ IsFx0a(my_chip8.opcode)
  /\ key_downs = 0

(***************************************************************************)
(* C1: while the VM waits for a key after FX0A, every step reports Blocked *)
(* and leaves PC, registers, I, memory, stack, timers, framebuffer and key *)
(* table as they were.                                                     *)
(***************************************************************************)
C1_WaitingStepChangesNothing ==
  [][ (InKeyWait /\ StepTaken)
        => (result' = "Blocked" /\ SameMachine(my_chip8', my_chip8)) ]_vars

(***************************************************************************)
(* C2: a step that executes FX0A leaves the VM waiting for a key on        *)
(* register X with PC held; a key-down with code k handled while the VM    *)
(* waits on register x writes k into Vx, marks key k down and ends the     *)
(* wait in that same event.                                                *)
(***************************************************************************)
C2_Fx0aEntersKeyWait ==
  [][ /\ \A w \in { \hF00A + 256 * x : x \in 0..15 } :
           (Executes(w) /\ result' = "Executed")
             => /\ my_chip8'.key_to_wait_reg = Some(OpX(w))
                /\ my_chip8'.pc = my_chip8.pc
      /\ (key_downs' = key_downs + 1 /\ my_chip8.key_to_wait_reg # None)
           => \E k \in KeyCodes :
                /\ my_chip8'.key[k] = 1
                /\ my_chip8'.v[my_chip8.key_to_wait_reg[1]] = k
                /\ my_chip8'.key_to_wait_reg = None ]_vars

(***************************************************************************)
(* C3: once a key-down has ended the wait of an FX0A at address A, the     *)
(* next step executes the instruction at A + 2; the FX0A is not executed   *)
(* again.                                                                  *)
(***************************************************************************)
C3_ResumesPastFx0a ==
  [][ ( /\ result = "Executed"
        /\ IsFx0a(my_chip8.opcode)
        /\ key_downs > 0
        /\ my_chip8.pc <= MEM_SIZE - 4
        /\ WordAt(my_chip8, my_chip8.pc) = my_chip8.opcode
        /\ StepTaken )
        => /\ my_chip8'.opcode = WordAt(my_chip8, my_chip8.pc + 2)
           /\ ~(my_chip8'.pc = my_chip8.pc /\ IsFx0a(my_chip8'.opcode)) ]_vars

(***************************************************************************)
(* C4: 00EE on an empty stack is fatal and leaves PC, stack depth, stack   *)
(* contents, registers, memory, timers and framebuffer as they were; the   *)
(* stack depth is never negative.                                          *)
(***************************************************************************)
C4_UnderflowLeavesState ==
  /\ [](my_chip8.sp >= 0)
  /\ [][ (Executes(\h00EE) /\ my_chip8.sp = 0)
           => (result' = "Fatal" /\ SameMachine(my_chip8', my_chip8)) ]_vars

(***************************************************************************)
(* C5: 2NNN on a full stack (STACK_SIZE return addresses) is fatal and     *)
(* leaves the whole VM state as it was; the stack depth never exceeds      *)
(* STACK_SIZE.                                                             *)
(***************************************************************************)
C5_OverflowLeavesState ==
  /\ [](my_chip8.sp <= STACK_SIZE)
  /\ [][ \A w \in { \h2000 + nnn : nnn \in 0..4095 } :
           (Executes(w) /\ my_chip8.sp = STACK_SIZE)
             => (result' = "Fatal" /\ SameMachine(my_chip8', my_chip8)) ]_vars

(***************************************************************************)
(* C6: a step fetches and executes an instruction only with PC in          *)
(* 0..MEM_SIZE - 2; a step that starts with PC beyond that is fatal and    *)
(* reads and changes nothing.                                              *)
(***************************************************************************)
C6_FetchWithinMemory ==
  [][ (StepTaken /\ my_chip8.key_to_wait_reg = None)
        => /\ (result' = "Executed"
                 => (0 <= my_chip8.pc /\ my_chip8.pc <= MEM_SIZE - 2))
           /\ (my_chip8.pc > MEM_SIZE - 2
                 => (result' = "Fatal" /\ my_chip8' = my_chip8)) ]_vars

\* a run ended at a fetch beyond the memory
C6_Witness ==
  /\ at = "panicked"
  /\ result = "Fatal"
  /\ panic = IndexOutOfBounds
  /\ my_chip8.pc > MEM_SIZE - 2

(***************************************************************************)
(* C7: a step changes the delay timer only when it executes FX15 and the   *)
(* sound timer only when it executes FX18.                                 *)
(***************************************************************************)
C7_TimersDecoupledFromStep ==
  [][ StepTaken
        => /\ (my_chip8'.delay_timer # my_chip8.delay_timer
                 => (OpFamily(my_chip8'.opcode) = 15 /\ OpNN(my_chip8'.opcode) = \h15))
           /\ (my_chip8'.sound_timer # my_chip8.sound_timer
                 => (OpFamily(my_chip8'.opcode) = 15 /\ OpNN(my_chip8'.opcode) = \h18))
    ]_vars

(***************************************************************************)
(* A second specification: every word of the opcode families that have a   *)
(* secondary selector or an unused nibble (0, 5, 8, 9, E, F), run as a     *)
(* one-instruction program on the machine as init leaves it.               *)
(***************************************************************************)
DecodeWords == { w \in 0..65535 : OpFamily(w) \in {0, 5, 8, 9, 14, 15} }

LoadWord ==
  /\ at = "load"
  /\ \E w \in DecodeWords :
       LET r == load_game(my_chip8, Rom(<< w >>))
       IN  /\ my_chip8' = r.emu
           /\ panic' = r.panic
           /\ at' = IF r.panic = "none" THEN "loop" ELSE "panicked"
  /\ UNCHANGED << overflow_checks, result, key_downs, events >>

NextWords == LoadWord \/ Step \/ Draw

SpecWords == Init /\ [][NextWords]_vars

(***************************************************************************)
(* C8: every word of the families 0, 8, E and F whose secondary selector   *)
(* is not in the opcode table is fatal with the "Unknown opcode" panic     *)
(* and leaves registers, I, PC, stack, memory, timers, framebuffer and key *)
(* state as they were.                                                     *)
(***************************************************************************)
\* the words of families 0, 8, E, F that the opcode table does not list
Unlisted ==
  { w \in 0..65535 :
      \/ OpFamily(w) = 0  /\ w \notin { \h00E0, \h00EE }
      \/ OpFamily(w) = 8  /\ OpN(w) \in { 8, 9, 10, 11, 12, 13, 15 }
      \/ OpFamily(w) = 14 /\ OpNN(w) \notin { \h9E, \hA1 }
      \/ OpFamily(w) = 15 /\ OpNN(w) \notin { \h07, \h0A, \h15, \h18, \h1E,
                                              \h29, \h33, \h55, \h65 } }

C8_UnlistedWordIsFatal ==
  [][ (StepTaken /\ my_chip8.key_to_wait_reg = None
         /\ my_chip8.pc <= MEM_SIZE - 2
         /\ WordAt(my_chip8, my_chip8.pc) \in Unlisted)
        => /\ result' = "Fatal"
           /\ panic' = UnknownOpcode
           /\ SameMachine(my_chip8', my_chip8) ]_vars

\* the run of the word F777 has ended in the panic
C8_Witness ==
  /\ at = "panicked"
  /\ panic = UnknownOpcode
  /\ my_chip8.opcode = \hF777
  /\ my_chip8.pc = PC_START

(***************************************************************************)
(* C9: a word 5XYN or 9XYN with N # 0 is fatal with the "Unknown opcode"   *)
(* panic; the register-compare skip is not performed.                      *)
(***************************************************************************)
C9_LowNibbleIsChecked ==
  [][ (StepTaken /\ my_chip8.key_to_wait_reg = None
         /\ my_chip8.pc <= MEM_SIZE - 2
         /\ OpFamily(WordAt(my_chip8, my_chip8.pc)) \in {5, 9}
         /\ OpN(WordAt(my_chip8, my_chip8.pc)) # 0)
        => /\ result' = "Fatal"
           /\ panic' = UnknownOpcode
           /\ my_chip8'.pc = my_chip8.pc ]_vars

(***************************************************************************)
(* C10: a call 2NNN at address A followed by the return 00EE at NNN        *)
(* leaves PC = A + 2 and the stack depth as it was before the call; a      *)
(* call pushes on top of the stack and a return pops the top, so nested    *)
(* calls return in last-in-first-out order.                                *)
(***************************************************************************)
\* the machine stands before a call whose target holds a return
BeforeCallAndReturn ==
  /\ at = "loop"
  /\ my_chip8.key_to_wait_reg = None
  /\ my_chip8.pc <= MEM_SIZE - 2
  /\ OpFamily(WordAt(my_chip8, my_chip8.pc)) = 2
  /\ OpNNN(WordAt(my_chip8, my_chip8.pc)) <= MEM_SIZE - 2
  /\ WordAt(my_chip8, OpNNN(WordAt(my_chip8, my_chip8.pc))) = \h00EE
  /\ my_chip8.sp < STACK_SIZE

C10_CallReturnRoundTrip ==
  /\ [](BeforeCallAndReturn =>
          LET r1 == emulate(my_chip8, overflow_checks, 0)
              r2 == emulate(r1.emu, overflow_checks, 0)
          IN  /\ r1.panic = "none"
              /\ r1.emu.pc = OpNNN(WordAt(my_chip8, my_chip8.pc))
              /\ r2.panic = "none"
              /\ r2.emu.pc = my_chip8.pc + 2
              /\ r2.emu.sp = my_chip8.sp)
  /\ [][ (StepTaken /\ result' = "Executed" /\ my_chip8.key_to_wait_reg = None)
           => /\ OpFamily(my_chip8'.opcode) = 2
                   => /\ my_chip8'.sp = my_chip8.sp + 1
                      /\ my_chip8'.stack =
                           [my_chip8.stack EXCEPT ![my_chip8.sp] = my_chip8.pc + 2]
                      /\ my_chip8'.pc = OpNNN(my_chip8'.opcode)
              /\ my_chip8'.opcode = \h00EE
                   => /\ my_chip8'.sp = my_chip8.sp - 1
                      /\ my_chip8'.stack = my_chip8.stack
                      /\ my_chip8'.pc = my_chip8.stack[my_chip8.sp - 1] ]_vars

\* the nested calls of NestedRom have both returned, the inner one first
C10_Witness ==
  /\ result = "Executed"
  /\ my_chip8.opcode = \h00EE
  /\ my_chip8.pc = PC_START + 2
  /\ my_chip8.sp = 0
  /\ my_chip8.stack[0] = PC_START + 2
  /\ my_chip8.stack[1] = PC_START + 8

(***************************************************************************)
(* More programs.  main.rs:36 loads whatever file it is given; the         *)
(* specifications below load programs that bring the machine to the        *)
(* instruction under study with chosen registers and address register,     *)
(* and then run as Spec does, without key events.                          *)
(***************************************************************************)
\* the word 6XNN
Ld(X, NN) == \h6000 + 256 * X + NN

(***************************************************************************)
(* Sprite programs: set VX and VY, point I at a sprite, draw it three      *)
(* times at the same place.                                                *)
(***************************************************************************)
\* sprite rows FF 81 01 80 stored at 0x300; the memory after them is 0
SpriteData == (\h300 :> \hFF81) @@ (\h302 :> \h0180)

\* register pairs, coordinates, sprite addresses and heights of the programs
DrawRegs == { << 0, 1 >>, << 2, 2 >> }

DrawXs == { 0, 57, 60, 63, 64, 255 }

DrawYs == { 0, 30, 31, 32, 255 }

\* glyph 0 of the font, the sprite data, a sprite of zero bytes
DrawIs == { 0, \h300, \h3F0 }

DrawNs == { 0, 1, 2, 5 }

DrawRom(X, Y, a, b, I, N) ==
  LET d == \hD000 + 256 * X + 16 * Y + N
  IN  Image((PC_START       :> Ld(X, a)) @@
            ((PC_START + 2) :> Ld(Y, b)) @@
            ((PC_START + 4) :> (\hA000 + I)) @@
            ((PC_START + 6) :> d) @@
            ((PC_START + 8) :> d) @@
            ((PC_START + 10) :> d) @@
            SpriteData)

DrawRoms ==
  { DrawRom(xy[1], xy[2], a, b, I, N) :
      xy \in DrawRegs, a \in DrawXs, b \in DrawYs, I \in DrawIs, N \in DrawNs }

LoadSprite ==
  /\ at = "load"
  /\ \E buffer \in DrawRoms :
       LET r == load_game(my_chip8, buffer)
       IN  /\ my_chip8' = r.emu
           /\ panic' = r.panic
           /\ at' = IF r.panic = "none" THEN "loop" ELSE "panicked"
  /\ UNCHANGED << overflow_checks, result, key_downs, events >>

NextDraw == LoadSprite \/ Step \/ Draw

SpecDraw == Init /\ [][NextDraw]_vars

\* bit 7 - c of row r of the sprite at I is set
SpriteBit(e, r, c) ==
  (Get(e.memory, e.addr_reg + r) \div (2 ^ (7 - c))) % 2 = 1

\* the word at pc is a DXYN whose N sprite rows lie within the memory
BeforeDraw(e) ==
  /\ e.key_to_wait_reg = None
  /\ e.pc <= MEM_SIZE - 2
  /\ OpFamily(WordAt(e, e.pc)) = 13
  /\ e.addr_reg + OpN(WordAt(e, e.pc)) <= MEM_SIZE

\* the cells of the 64 x 32 grid the sprite pixels (VX + c, VY + r) fall on
\* when they are wrapped; the cells a clipped draw touches are among them
TargetCells(e) ==
  LET w == WordAt(e, e.pc)
  IN  { ((e.v[OpY(w)] + rc[1]) % SCREEN_HEIGHT) * SCREEN_WIDTH
          + ((e.v[OpX(w)] + rc[2]) % SCREEN_WIDTH) :
        rc \in { p \in (0..(OpN(w) - 1)) \X (0..7) : SpriteBit(e, p[1], p[2]) } }

\* the cells in which two framebuffers differ
ChangedCells(s, t) ==
  { i \in DOMAIN s \cup DOMAIN t : Get(s, i) # Get(t, i) }

(***************************************************************************)
(* C11: DXYN never accesses the framebuffer out of range: a draw whose     *)
(* sprite rows lie in memory is not fatal, and every cell it changes is    *)
(* the cell of a sprite pixel (VX + c, VY + r) clipped or wrapped into the *)
(* 64 x 32 grid; a pixel whose column exceeds 63 does not land in the      *)
(* following row.                                                          *)
(***************************************************************************)
C11_DrawStaysInGrid ==
  [][ (StepTaken /\ BeforeDraw(my_chip8))
        => /\ result' = "Executed"
           /\ ChangedCells(my_chip8.screen, my_chip8'.screen)
                \subseteq TargetCells(my_chip8) ]_vars

(***************************************************************************)
(* C12: drawing the same sprite (same I, same bytes, same N) at the same   *)
(* coordinates twice restores every pixel to its value before the first    *)
(* draw; from a clear screen the first draw leaves VF = 0 and the second   *)
(* VF = 1; I is unchanged by both draws.  The sprite is taken to have at   *)
(* least one pixel set.                                                    *)
(***************************************************************************)
\* the machine stands before two equal DXYN words that draw the same
\* sprite at the same coordinates
BeforeTwoDraws ==
  /\ at = "loop"
  /\ BeforeDraw(my_chip8)
  /\ my_chip8.pc <= MEM_SIZE - 4
  /\ WordAt(my_chip8, my_chip8.pc + 2) = WordAt(my_chip8, my_chip8.pc)
  /\ OpX(WordAt(my_chip8, my_chip8.pc)) # 15
  /\ OpY(WordAt(my_chip8, my_chip8.pc)) # 15
  /\ \E r \in 0..(OpN(WordAt(my_chip8, my_chip8.pc)) - 1), c \in 0..7 :
       SpriteBit(my_chip8, r, c)

C12_DrawTwiceRestores ==
  BeforeTwoDraws =>
    LET r1 == emulate(my_chip8, overflow_checks, 0)
        r2 == emulate(r1.emu, overflow_checks, 0)
    IN  /\ r1.panic = "none"
        /\ r2.panic = "none"
        /\ r2.emu.screen = my_chip8.screen
        /\ r1.emu.addr_reg = my_chip8.addr_reg
        /\ r2.emu.addr_reg = my_chip8.addr_reg
        /\ my_chip8.screen = Zeroed
             => (r1.emu.v[15] = 0 /\ r2.emu.v[15] = 1)

(***************************************************************************)
(* C13: the load copies the buffer to the addresses from PC_START on and   *)
(* rejects every buffer longer than MEM_SIZE - PC_START = 3584 bytes; a    *)
(* rejected load leaves the memory unchanged, and every load leaves the    *)
(* font bytes at 0..79 as they were.  (The rejection is the panic of the   *)
(* slice index, which ends the process.)                                   *)
(***************************************************************************)
FontKept(a, b) == \A i \in 0..(Len(FONT_SET) - 1) : Get(a.memory, i) = Get(b.memory, i)

C13_LoadRejectsTooLarge ==
  /\ [](at = "load" =>
          \A buffer \in ROMS :
            LET r == load_game(my_chip8, buffer)
            IN  /\ FontKept(r.emu, my_chip8)
                /\ IF Len(buffer) > 3584
                   THEN r.panic # "none" /\ r.emu.memory = my_chip8.memory
                   ELSE /\ r.panic = "none"
                        /\ \A a \in 0..(MEM_SIZE - 1) :
                             Get(r.emu.memory, a) =
                               IF a >= PC_START /\ a < PC_START + Len(buffer)
                               THEN buffer[a - PC_START + 1]
                               ELSE Get(my_chip8.memory, a))
  /\ [][ (at = "load" /\ at' # "load")
           => /\ FontKept(my_chip8', my_chip8)
              /\ at' = "panicked" => my_chip8'.memory = my_chip8.memory ]_vars

\* the load of a file longer than 3584 bytes has ended the process, with the
\* memory as init left it
C13_Witness ==
  /\ at = "panicked"
  /\ panic = SliceOutOfRange
  /\ result = "none"
  /\ my_chip8.memory = init.memory

(***************************************************************************)
(* C14: after init, PC = 0x200, I = 0, the stack depth is 0, the 16        *)
(* registers, the stack slots, both timers and the 2048 framebuffer cells  *)
(* are 0, the draw flag is false, the 16 keys are up, memory bytes 0..79   *)
(* are the font table and memory bytes 80..4095 are 0.                     *)
(***************************************************************************)
C14_InitState ==
  at = "load" =>
    /\ my_chip8.pc = \h200
    /\ my_chip8.addr_reg = 0
    /\ my_chip8.sp = 0
    /\ DOMAIN my_chip8.v = 0..15
    /\ \A i \in 0..15 : my_chip8.v[i] = 0
    /\ \A i \in DOMAIN my_chip8.stack : my_chip8.stack[i] = 0
    /\ my_chip8.delay_timer = 0
    /\ my_chip8.sound_timer = 0
    /\ \A i \in 0..2047 : Get(my_chip8.screen, i) = 0
    /\ my_chip8.draw_flag = FALSE
    /\ DOMAIN my_chip8.key = 0..15
    /\ \A i \in 0..15 : my_chip8.key[i] = 0
    /\ \A a \in 0..79 : Get(my_chip8.memory, a) = FONT_SET[a + 1]
    /\ \A a \in 80..4095 : Get(my_chip8.memory, a) = 0

\* the machine as init has just built it; the last font byte is in place
C14_Witness ==
  /\ at = "load"
  /\ result = "none"
  /\ my_chip8.pc = PC_START
  /\ Get(my_chip8.memory, 79) = \h80
  /\ Get(my_chip8.memory, 80) = 0

(***************************************************************************)
(* Timer programs: set the delay timer from VX and the sound timer from    *)
(* VY, then spin on reading the delay timer into V5 and a jump back while  *)
(* the timers run down.                                                    *)
(***************************************************************************)
TimerRegs == { << 0, 1 >>, << 3, 3 >> }

TimerValues == { 0, 1, 3, 255 }

TimerRom(X, Y, a, b) ==
  Rom(<< Ld(X, a), \hF015 + 256 * X, Ld(Y, b), \hF018 + 256 * Y,
         \hF507, \h1208 >>)

TimerRoms ==
  { TimerRom(xy[1], xy[2], a, b) :
      xy \in TimerRegs, a \in TimerValues, b \in TimerValues }

LoadTimerRom ==
  /\ at = "load"
  /\ \E buffer \in TimerRoms :
       LET r == load_game(my_chip8, buffer)
       IN  /\ my_chip8' = r.emu
           /\ panic' = r.panic
           /\ at' = IF r.panic = "none" THEN "loop" ELSE "panicked"
  /\ UNCHANGED << overflow_checks, result, key_downs, events >>

NextTimers == LoadTimerRom \/ Step \/ Draw

SpecTimers == Init /\ [][NextTimers]_vars

(***************************************************************************)
(* C15: each timer is in 0..255 in every reachable state; the timer        *)
(* advance (the end of every executed emulate) takes a timer that is > 0   *)
(* down by exactly 1 and leaves a timer that is 0 at 0, each timer by its  *)
(* own value only.  The value advanced is the one the instruction left:    *)
(* VX after FX15 (delay) or FX18 (sound), the old value otherwise.         *)
(***************************************************************************)
\* the timers as the instruction of an executed step left them
DelayAfterInstruction ==
  IF OpFamily(my_chip8'.opcode) = 15 /\ OpNN(my_chip8'.opcode) = \h15
  THEN my_chip8.v[OpX(my_chip8'.opcode)] ELSE my_chip8.delay_timer

SoundAfterInstruction ==
  IF OpFamily(my_chip8'.opcode) = 15 /\ OpNN(my_chip8'.opcode) = \h18
  THEN my_chip8.v[OpX(my_chip8'.opcode)] ELSE my_chip8.sound_timer

C15_TimersCountDown ==
  /\ [](my_chip8.delay_timer \in 0..255 /\ my_chip8.sound_timer \in 0..255)
  /\ [][ (StepTaken /\ result' = "Executed")
           => /\ my_chip8'.delay_timer =
                   IF DelayAfterInstruction > 0 THEN DelayAfterInstruction - 1
                   ELSE 0
              /\ my_chip8'.sound_timer =
                   IF SoundAfterInstruction > 0 THEN SoundAfterInstruction - 1
                   ELSE 0 ]_vars

\* the delay timer has run out and stays at 0 while the sound timer, set
\* to 255, still counts down
C15_Witness ==
  /\ result = "Executed"
  /\ my_chip8.opcode = \h1208
  /\ my_chip8.delay_timer = 0
  /\ my_chip8.sound_timer = 200

(***************************************************************************)
(* Register programs: set V0..VX, point I somewhere, dump the registers    *)
(* with FX55 and load them back with FX65.                                 *)
(***************************************************************************)
\* the byte register i gets in the program with this seed
RegByte(seed, i) == (seed + 37 * i) % 256

RegSeeds == { 1, 200 }

\* I for register X: over the font, in free memory, the last place where
\* I + X is inside the memory, and the first where it is not
DumpIs(X) == { 0, \h300, MEM_SIZE - 1 - X, MEM_SIZE - X } \cap 0..(MEM_SIZE - 1)

DumpRom(X, seed, I) ==
  Rom([i \in 1..(X + 4) |->
         IF i <= X + 1 THEN Ld(i - 1, RegByte(seed, i - 1))
         ELSE IF i = X + 2 THEN \hA000 + I
         ELSE IF i = X + 3 THEN \hF055 + 256 * X
         ELSE \hF065 + 256 * X])

DumpRoms ==
  UNION { { DumpRom(X, seed, I) : seed \in RegSeeds, I \in DumpIs(X) } :
          X \in 0..(REG_SIZE - 1) }

LoadDumpRom ==
  /\ at = "load"
  /\ \E buffer \in DumpRoms :
       LET r == load_game(my_chip8, buffer)
       IN  /\ my_chip8' = r.emu
           /\ panic' = r.panic
           /\ at' = IF r.panic = "none" THEN "loop" ELSE "panicked"
  /\ UNCHANGED << overflow_checks, result, key_downs, events >>

NextDump == LoadDumpRom \/ Step \/ Draw

SpecDump == Init /\ [][NextDump]_vars

(***************************************************************************)
(* C16: for every X and every I with I + X <= 4095, FX55 followed by FX65  *)
(* with the same X and I leaves V0..VX as they were before the FX55; the   *)
(* FX55 writes V0..VX to memory[I..I+X] and changes no other byte, the     *)
(* FX65 changes no byte, and I is unchanged after each of the two.         *)
(***************************************************************************)
\* the machine stands before an FX55 with I + X inside the memory
BeforeDump ==
  /\ at = "loop"
  /\ my_chip8.key_to_wait_reg = None
  /\ my_chip8.pc <= MEM_SIZE - 2
  /\ OpFamily(WordAt(my_chip8, my_chip8.pc)) = 15
  /\ OpNN(WordAt(my_chip8, my_chip8.pc)) = \h55
  /\ my_chip8.addr_reg + OpX(WordAt(my_chip8, my_chip8.pc)) <= 4095

C16_DumpLoadRoundTrip ==
  BeforeDump =>
    LET X  == OpX(WordAt(my_chip8, my_chip8.pc))
        I  == my_chip8.addr_reg
        r1 == emulate(my_chip8, overflow_checks, 0)
        r2 == emulate(r1.emu, overflow_checks, 0)
    IN  /\ r1.panic = "none"
        /\ r1.emu.addr_reg = I
        /\ r1.emu.v = my_chip8.v
        /\ \A a \in 0..(MEM_SIZE - 1) :
             Get(r1.emu.memory, a) =
               IF a >= I /\ a <= I + X THEN my_chip8.v[a - I]
               ELSE Get(my_chip8.memory, a)
        /\ (r1.emu.pc <= MEM_SIZE - 2
              /\ WordAt(r1.emu, r1.emu.pc) = \hF065 + 256 * X)
             => /\ r2.panic = "none"
                /\ r2.emu.addr_reg = I
                /\ r2.emu.memory = r1.emu.memory
                /\ \A i \in 0..X : r2.emu.v[i] = my_chip8.v[i]

\* FF55 and FF65 have run with I + 15 = 4095: the last byte of the memory
\* holds VF and VF has been read back
C16_Witness ==
  /\ result = "Executed"
  /\ my_chip8.opcode = \hFF65
  /\ my_chip8.addr_reg = MEM_SIZE - 16
  /\ my_chip8.v[15] = RegByte(200, 15)
  /\ Get(my_chip8.memory, MEM_SIZE - 1) = RegByte(200, 15)
  /\ Get(my_chip8.memory, MEM_SIZE - 16) = 200

(***************************************************************************)
(* Arithmetic programs: set VX and VY, then one 8XYN of the flag-writing   *)
(* kinds (4, 5, 6, 7, E).                                                  *)
(***************************************************************************)
\* Y distinct from X and F, Y = X, Y = F
ArithRegs == { << 1, 2 >>, << 3, 3 >>, << 4, 15 >> }

ArithNs == { 4, 5, 6, 7, 14 }

\* the values VY gets for the value a of VX: around the carry and the
\* borrow of a
ArithYs(a) == { 1, a, 255 - a, (256 - a) % 256 }

ArithRom(X, Y, a, b, N) ==
  Rom(<< Ld(X, a), Ld(Y, b), \h8000 + 256 * X + 16 * Y + N >>)

\* with Y = X the second load decides both operands
ArithRoms ==
  UNION { { ArithRom(xy[1], xy[2], ab[1], ab[2], N) :
              xy \in { r \in ArithRegs : r[1] # r[2] \/ ab[2] = ab[1] },
              N \in ArithNs } :
          ab \in { p \in (0..255) \X (0..255) : p[2] \in ArithYs(p[1]) } }

LoadArithRom ==
  /\ at = "load"
  /\ \E buffer \in ArithRoms :
       LET r == load_game(my_chip8, buffer)
       IN  /\ my_chip8' = r.emu
           /\ panic' = r.panic
           /\ at' = IF r.panic = "none" THEN "loop" ELSE "panicked"
  /\ UNCHANGED << overflow_checks, result, key_downs, events >>

NextArith == LoadArithRom \/ Step \/ Draw

SpecArith == Init /\ [][NextArith]_vars

\* this step runs emulate on a word 8XYn with X # F
ArithStep(n) ==
  /\ StepTaken
  /\ my_chip8.key_to_wait_reg = None
  /\ my_chip8.pc <= MEM_SIZE - 2
  /\ OpFamily(WordAt(my_chip8, my_chip8.pc)) = 8
  /\ OpN(WordAt(my_chip8, my_chip8.pc)) = n
  /\ OpX(WordAt(my_chip8, my_chip8.pc)) # 15

\* the operands of the word at pc, before the step
VX == my_chip8.v[OpX(WordAt(my_chip8, my_chip8.pc))]

VY == my_chip8.v[OpY(WordAt(my_chip8, my_chip8.pc))]

\* the registers after the step
VXAfter == my_chip8'.v[OpX(WordAt(my_chip8, my_chip8.pc))]

VYAfter == my_chip8'.v[OpY(WordAt(my_chip8, my_chip8.pc))]

VFAfter == my_chip8'.v[15]

(***************************************************************************)
(* C17: 8XY4 with X # F leaves VX = (VX + VY) mod 256, VF = 1 if           *)
(* VX + VY > 255 and VF = 0 otherwise, and PC advanced by 2, for all       *)
(* values, also when Y = X and when Y = F.                                 *)
(***************************************************************************)
C17_AddWithCarry ==
  [][ ArithStep(4)
        => /\ result' = "Executed"
           /\ VXAfter = (VX + VY) % 256
           /\ VFAfter = (IF VX + VY > 255 THEN 1 ELSE 0)
           /\ my_chip8'.pc = my_chip8.pc + 2 ]_vars

\* 84F4 has run with V4 = 200 and VF = 55: the sum is 255 without a carry,
\* so VF, an operand, now holds the flag 0
C17_Witness ==
  /\ result = "Executed"
  /\ my_chip8.opcode = \h84F4
  /\ my_chip8.v[4] = 255
  /\ my_chip8.v[15] = 0
  /\ Get(my_chip8.memory, PC_START + 1) = 200

(***************************************************************************)
(* C18: with X # F, 8XY5 leaves VX = (VX - VY) mod 256 and VF = 1 exactly  *)
(* when VX >= VY; 8XY7 leaves VX = (VY - VX) mod 256 and VF = 1 exactly    *)
(* when VY >= VX; VF = 0 otherwise.                                        *)
(***************************************************************************)
C18_SubtractNoBorrow ==
  [][ /\ ArithStep(5)
        => /\ result' = "Executed"
           /\ VXAfter = (IF VX >= VY THEN VX - VY ELSE VX - VY + 256)
           /\ VFAfter = (IF VX >= VY THEN 1 ELSE 0)
      /\ ArithStep(7)
        => /\ result' = "Executed"
           /\ VXAfter = (IF VY >= VX THEN VY - VX ELSE VY - VX + 256)
           /\ VFAfter = (IF VY >= VX THEN 1 ELSE 0) ]_vars

\* 8125 has run with V1 = V2 = 77: the difference is 0 and VF = 1
C18_Witness ==
  /\ result = "Executed"
  /\ my_chip8.opcode = \h8125
  /\ my_chip8.v[1] = 0
  /\ my_chip8.v[2] = 77
  /\ my_chip8.v[15] = 1

(***************************************************************************)
(* C19, as claimed: with X # F, 8XY6 leaves VF = the least significant bit *)
(* of the old VX and VX = old VX div 2; 8XYE leaves VF = the most          *)
(* significant bit of the old VX and VX = (old VX * 2) mod 256; VY is not  *)
(* read or changed.                                                        *)
(***************************************************************************)
C19_ShiftLeavesVY ==
  [][ /\ ArithStep(6)
        => /\ result' = "Executed"
           /\ VFAfter = VX % 2
           /\ VXAfter = VX \div 2
           /\ VYAfter = VY
      /\ ArithStep(14)
        => /\ result' = "Executed"
           /\ VFAfter = VX \div 128
           /\ VXAfter = (VX * 2) % 256
           /\ VYAfter = VY ]_vars

(***************************************************************************)
(* C19, amended: with X # F, 8XY6 leaves VF = the least significant bit of *)
(* the old VX and VX = old VX div 2; 8XYE leaves VF = the most significant *)
(* bit of the old VX and VX = (old VX * 2) mod 256; both results are       *)
(* functions of the old VX alone, and VY is unchanged when Y is neither X  *)
(* nor F (with Y = X it is the shifted register, with Y = F it is the      *)
(* flag).                                                                  *)
(***************************************************************************)
\* register Y of the word at pc is neither register X nor VF
YApart ==
  /\ OpY(WordAt(my_chip8, my_chip8.pc)) # OpX(WordAt(my_chip8, my_chip8.pc))
  /\ OpY(WordAt(my_chip8, my_chip8.pc)) # 15

C19_ShiftInPlace ==
  [][ /\ ArithStep(6)
        => /\ result' = "Executed"
           /\ VFAfter = VX % 2
           /\ VXAfter = VX \div 2
           /\ YApart => VYAfter = VY
      /\ ArithStep(14)
        => /\ result' = "Executed"
           /\ VFAfter = VX \div 128
           /\ VXAfter = (VX * 2) % 256
           /\ YApart => VYAfter = VY ]_vars

\* 8126 has run with V1 = 201 and V2 = 55: V1 is halved, VF is the bit
\* shifted out and V2 is as it was
C19_Witness ==
  /\ result = "Executed"
  /\ my_chip8.opcode = \h8126
  /\ my_chip8.v[1] = 100
  /\ my_chip8.v[2] = 55
  /\ my_chip8.v[15] = 1

(***************************************************************************)
(* Decimal programs: set VX, point I somewhere, store the digits of VX     *)
(* with FX33.                                                              *)
(***************************************************************************)
BcdRegs == { 0, 7, 15 }

\* I over the font, in free memory, the last place where I + 2 is inside
\* the memory, and the first where it is not
BcdIs == { 0, \h300, MEM_SIZE - 3, MEM_SIZE - 2 }

BcdRom(X, a, I) == Rom(<< Ld(X, a), \hA000 + I, \hF033 + 256 * X >>)

BcdRoms == { BcdRom(X, a, I) : X \in BcdRegs, a \in 0..255, I \in BcdIs }

LoadBcdRom ==
  /\ at = "load"
  /\ \E buffer \in BcdRoms :
       LET r == load_game(my_chip8, buffer)
       IN  /\ my_chip8' = r.emu
           /\ panic' = r.panic
           /\ at' = IF r.panic = "none" THEN "loop" ELSE "panicked"
  /\ UNCHANGED << overflow_checks, result, key_downs, events >>

NextBcd == LoadBcdRom \/ Step \/ Draw

SpecBcd == Init /\ [][NextBcd]_vars

(***************************************************************************)
(* C20: FX33 with I + 2 <= 4095 leaves memory[I], memory[I+1] and          *)
(* memory[I+2] each in 0..9 with 100 * memory[I] + 10 * memory[I+1] +      *)
(* memory[I+2] = VX, for every VX in 0..255; I, VX and every other memory  *)
(* byte are unchanged and PC advances by 2.                                *)
(***************************************************************************)
\* this step runs emulate on a word FX33 with I + 2 inside the memory
BcdStep ==
  /\ StepTaken
  /\ my_chip8.key_to_wait_reg = None
  /\ my_chip8.pc <= MEM_SIZE - 2
  /\ OpFamily(WordAt(my_chip8, my_chip8.pc)) = 15
  /\ OpNN(WordAt(my_chip8, my_chip8.pc)) = \h33
  /\ my_chip8.addr_reg + 2 <= 4095

C20_DecimalDigits ==
  [][ BcdStep
        => LET I == my_chip8.addr_reg
               m == my_chip8'.memory
           IN  /\ result' = "Executed"
               /\ \A k \in 0..2 : Get(m, I + k) \in 0..9
               /\ 100 * Get(m, I) + 10 * Get(m, I + 1) + Get(m, I + 2) = VX
               /\ my_chip8'.addr_reg = I
               /\ VXAfter = VX
               /\ \A a \in (DOMAIN m \cup DOMAIN my_chip8.memory) \ (I..(I + 2)) :
                    Get(m, a) = Get(my_chip8.memory, a)
               /\ my_chip8'.pc = my_chip8.pc + 2 ]_vars

\* FF33 has run with VF = 255 and I + 2 = 4095: the last three bytes of the
\* memory hold 2, 5, 5
C20_Witness ==
  /\ result = "Executed"
  /\ my_chip8.opcode = \hFF33
  /\ my_chip8.v[15] = 255
  /\ my_chip8.addr_reg = MEM_SIZE - 3
  /\ Get(my_chip8.memory, MEM_SIZE - 3) = 2
  /\ Get(my_chip8.memory, MEM_SIZE - 2) = 5
  /\ Get(my_chip8.memory, MEM_SIZE - 1) = 5

(***************************************************************************)
(* Font programs: set VX, then FX29.                                       *)
(***************************************************************************)
FontRegs == { 0, 5, 15 }

FontRom(X, a) == Rom(<< Ld(X, a), \hF029 + 256 * X >>)

FontRoms == { FontRom(X, a) : X \in FontRegs, a \in 0..255 }

LoadFontRom ==
  /\ at = "load"
  /\ \E buffer \in FontRoms :
       LET r == load_game(my_chip8, buffer)
       IN  /\ my_chip8' = r.emu
           /\ panic' = r.panic
           /\ at' = IF r.panic = "none" THEN "loop" ELSE "panicked"
  /\ UNCHANGED << overflow_checks, result, key_downs, events >>

NextFont == LoadFontRom \/ Step \/ Draw

SpecFont == Init /\ [][NextFont]_vars

(***************************************************************************)
(* C21: FX29 with VX in 0..15 sets I = 5 * VX, the address of glyph VX in  *)
(* the font table at 0..79, and advances PC by 2; with VX > 0xF it is      *)
(* fatal with the font panic and leaves I and PC as they were.             *)
(***************************************************************************)
\* this step runs emulate on a word FX29
FontStep ==
  /\ StepTaken
  /\ my_chip8.key_to_wait_reg = None
  /\ my_chip8.pc <= MEM_SIZE - 2
  /\ OpFamily(WordAt(my_chip8, my_chip8.pc)) = 15
  /\ OpNN(WordAt(my_chip8, my_chip8.pc)) = \h29

C21_FontAddress ==
  [][ FontStep
        => IF VX <= 15
           THEN /\ result' = "Executed"
                /\ my_chip8'.addr_reg = 5 * VX
                /\ my_chip8'.addr_reg + 4 <= 79
                /\ \A k \in 0..4 : Get(my_chip8'.memory, my_chip8'.addr_reg + k)
                                     = FONT_SET[5 * VX + k + 1]
                /\ my_chip8'.pc = my_chip8.pc + 2
           ELSE /\ result' = "Fatal"
                /\ panic' = FontSetPanic
                /\ my_chip8'.addr_reg = my_chip8.addr_reg
                /\ my_chip8'.pc = my_chip8.pc ]_vars

\* F529 has run with V5 = 15: I is the address of the last glyph
C21_Witness ==
  /\ result = "Executed"
  /\ my_chip8.opcode = \hF529
  /\ my_chip8.v[5] = 15
  /\ my_chip8.addr_reg = 75
  /\ my_chip8.pc = PC_START + 4

(***************************************************************************)
(* C22: every framebuffer cell is 0 or 1 in every reachable state, and the *)
(* framebuffer is changed only by a step that executes 00E0, after which   *)
(* all cells are 0, or DXYN; every other instruction, the timer update and *)
(* the key events leave it unchanged.                                      *)
(***************************************************************************)
C22_FramebufferCells ==
  /\ [](/\ DOMAIN my_chip8.screen \subseteq 0..(SCREEN_WIDTH * SCREEN_HEIGHT - 1)
        /\ \A i \in 0..(SCREEN_WIDTH * SCREEN_HEIGHT - 1) :
             Get(my_chip8.screen, i) \in {0, 1})
  /\ [][ /\ my_chip8'.screen # my_chip8.screen
            => /\ StepTaken
               /\ my_chip8.pc <= MEM_SIZE - 2
               /\ my_chip8'.opcode = WordAt(my_chip8, my_chip8.pc)
               /\ (my_chip8'.opcode = \h00E0 \/ OpFamily(my_chip8'.opcode) = 13)
         /\ (Executes(\h00E0) /\ result' = "Executed")
            => my_chip8'.screen = Zeroed ]_vars

\* 00E0 has cleared a screen on which glyph 1 had been drawn
C22_Witness ==
  /\ result = "Executed"
  /\ my_chip8.opcode = \h00E0
  /\ my_chip8.addr_reg = 5
  /\ my_chip8.screen = Zeroed
  /\ my_chip8.pc = PC_START + 16

(***************************************************************************)
(* C24: the redraw flag is set by every step that executes 00E0 or DXYN    *)
(* and by nothing else, and only the host (the redraw of main) clears it:  *)
(* a step, its timer update or a key event applied to a machine whose flag *)
(* is set leaves it set.                                                   *)
(***************************************************************************)
C24_RedrawFlag ==
  /\ []((at = "draw" /\ my_chip8.draw_flag)
          => /\ emulate(my_chip8, overflow_checks, 0).emu.draw_flag
             /\ \A y \in KeyCodes : /\ key_press(my_chip8, y).draw_flag
                                    /\ key_release(my_chip8, y).draw_flag)
  /\ [][ /\ (StepTaken /\ result' = "Executed"
               /\ (my_chip8'.opcode = \h00E0 \/ OpFamily(my_chip8'.opcode) = 13))
            => my_chip8'.draw_flag
         /\ (my_chip8'.draw_flag /\ ~my_chip8.draw_flag)
            => /\ StepTaken
               /\ result' = "Executed"
               /\ (my_chip8'.opcode = \h00E0 \/ OpFamily(my_chip8'.opcode) = 13)
         /\ (my_chip8.draw_flag /\ ~my_chip8'.draw_flag)
            => (at = "draw" /\ at' = "loop") ]_vars

\* the step that executed 00E0 has set the flag and main has not yet
\* redrawn
C24_Witness ==
  /\ at = "draw"
  /\ result = "Executed"
  /\ my_chip8.opcode = \h00E0
  /\ my_chip8.draw_flag
  /\ my_chip8.pc = PC_START + 16

(***************************************************************************)
(* C23: a key-up event changes only the key table entry of its key: it     *)
(* neither sets nor clears the wait for a key and writes no register, so   *)
(* a machine waiting for a key into Vx still waits for it, with Vx         *)
(* unchanged, after the event.                                             *)
(***************************************************************************)
\* this step of the behaviour handles a key-up event
KeyUpHandled == events' = events + 1 /\ key_downs' = key_downs

C23_KeyUpOnlyKeyTable ==
  /\ [](at = "loop" =>
          \A y \in KeyCodes, x \in 0..(REG_SIZE - 1) :
            LET waiting == [my_chip8 EXCEPT !.key_to_wait_reg = Some(x)]
            IN  /\ key_release(waiting, y) = [waiting EXCEPT !.key[y] = 0]
                /\ key_release(my_chip8, y) = [my_chip8 EXCEPT !.key[y] = 0])
  /\ [][ KeyUpHandled
           => /\ \E y \in KeyCodes : my_chip8' = [my_chip8 EXCEPT !.key[y] = 0]
              /\ my_chip8'.key_to_wait_reg = my_chip8.key_to_wait_reg
              /\ my_chip8'.v = my_chip8.v ]_vars

\* a key has gone down and up again since the latest step
C23_Witness ==
  /\ at = "loop"
  /\ key_downs > 0
  /\ events >= 2
  /\ \A y \in KeyCodes : my_chip8.key[y] = 0

(***************************************************************************)
(* Flag programs: the arithmetic programs with VF as the destination.      *)
(***************************************************************************)
\* the registers Y used with X = F
FlagYs == { 1, 15 }

FlagXs == { 0, 1, 2, 3, 127, 128, 129, 200, 254, 255 }

FlagRoms ==
  UNION { { ArithRom(15, Y, ab[1], ab[2], N) :
              Y \in { r \in FlagYs : r # 15 \/ ab[2] = ab[1] }, N \in ArithNs } :
          ab \in { p \in FlagXs \X (0..255) : p[2] \in ArithYs(p[1]) } }

LoadFlagRom ==
  /\ at = "load"
  /\ \E buffer \in FlagRoms :
       LET r == load_game(my_chip8, buffer)
       IN  /\ my_chip8' = r.emu
           /\ panic' = r.panic
           /\ at' = IF r.panic = "none" THEN "loop" ELSE "panicked"
  /\ UNCHANGED << overflow_checks, result, key_downs, events >>

NextFlag == LoadFlagRom \/ Step \/ Draw

SpecFlag == Init /\ [][NextFlag]_vars

(***************************************************************************)
(* C25: for 8XY4, 8XY5, 8XY6, 8XY7 and 8XYE with X = F the flag write      *)
(* wins: VF after the instruction is the flag (carry, no borrow, the bit   *)
(* shifted out), not the result of the addition, subtraction or shift.     *)
(***************************************************************************)
\* this step runs emulate on a word 8FYn
FlagStep(n) ==
  /\ StepTaken
  /\ my_chip8.key_to_wait_reg = None
  /\ my_chip8.pc <= MEM_SIZE - 2
  /\ OpFamily(WordAt(my_chip8, my_chip8.pc)) = 8
  /\ OpN(WordAt(my_chip8, my_chip8.pc)) = n
  /\ OpX(WordAt(my_chip8, my_chip8.pc)) = 15

C25_FlagWriteWins ==
  [][ /\ FlagStep(4)  => VFAfter = (IF VX + VY > 255 THEN 1 ELSE 0)
      /\ FlagStep(5)  => VFAfter = (IF VX >= VY THEN 1 ELSE 0)
      /\ FlagStep(6)  => VFAfter = VX % 2
      /\ FlagStep(7)  => VFAfter = (IF VY >= VX THEN 1 ELSE 0)
      /\ FlagStep(14) => VFAfter = VX \div 128 ]_vars

(***************************************************************************)
(* C26: every memory access at an address derived from I is bounds-checked *)
(* and atomic: a step whose FX33, FX55, FX65 or DXYN would touch an        *)
(* address I + offset > 4095 is fatal, and no memory byte and no register  *)
(* has been modified by it.                                                *)
(***************************************************************************)
\* the word w, run with address register I, would touch an address > 4095
TouchesBeyondMemory(w, I) ==
  \/ OpFamily(w) = 15 /\ OpNN(w) \in { \h55, \h65 } /\ I + OpX(w) > 4095
  \/ OpFamily(w) = 15 /\ OpNN(w) = \h33 /\ I + 2 > 4095
  \/ OpFamily(w) = 13 /\ OpN(w) >= 1 /\ I + OpN(w) - 1 > 4095

C26_AccessBeyondMemoryIsAtomic ==
  [][ (StepTaken /\ my_chip8.key_to_wait_reg = None
         /\ my_chip8.pc <= MEM_SIZE - 2
         /\ TouchesBeyondMemory(WordAt(my_chip8, my_chip8.pc), my_chip8.addr_reg))
        => /\ result' = "Fatal"
           /\ my_chip8'.memory = my_chip8.memory
           /\ my_chip8'.v = my_chip8.v ]_vars


(***************************************************************************)
(* C27: within one emulate call the timers are updated after the           *)
(* instruction has executed.  FX15 (FX18) with VX = n > 0 leaves the delay *)
(* (sound) timer at n - 1 when the call returns, and FX07 stores in VX the *)
(* delay timer as it was when the call began, before this call's           *)
(* decrement.                                                              *)
(***************************************************************************)
C27_TimersAfterInstruction ==
  [][ (StepTaken /\ result' = "Executed" /\ OpFamily(my_chip8'.opcode) = 15)
        => LET x == OpX(my_chip8'.opcode)
               nn == OpNN(my_chip8'.opcode)
           IN  /\ (nn = \h15 /\ my_chip8.v[x] > 0)
                    => my_chip8'.delay_timer = my_chip8.v[x] - 1
               /\ (nn = \h18 /\ my_chip8.v[x] > 0)
                    => my_chip8'.sound_timer = my_chip8.v[x] - 1
               /\ nn = \h07
                    => /\ my_chip8'.v[x] = my_chip8.delay_timer
                       /\ my_chip8.delay_timer > 0
                            => my_chip8'.delay_timer = my_chip8'.v[x] - 1 ]_vars

\* F507 has read 252 from the delay timer that F015 set from V0 = 255 three
\* steps before, and the timer has gone on to 251 in the same call
C27_Witness ==
  /\ result = "Executed"
  /\ my_chip8.opcode = \hF507
  /\ my_chip8.v[0] = 255
  /\ my_chip8.v[5] = 252
  /\ my_chip8.delay_timer = 251

(***************************************************************************)
(* Key programs: set VX, then skip on the key VX names being down (EX9E)   *)
(* and being up (EXA1), run while keys go down and up.                     *)
(***************************************************************************)
KeyRegs == { 0, 15 }

KeyValues == { 0, 1, 2, 15, 16, 255 }

KeyRom(X, a) ==
  Rom(<< Ld(X, a), \hE09E + 256 * X, \hE0A1 + 256 * X, \hE09E + 256 * X,
         \hE0A1 + 256 * X >>)

KeyRoms == { KeyRom(X, a) : X \in KeyRegs, a \in KeyValues }

LoadKeyRom ==
  /\ at = "load"
  /\ \E buffer \in KeyRoms :
       LET r == load_game(my_chip8, buffer)
       IN  /\ my_chip8' = r.emu
           /\ panic' = r.panic
           /\ at' = IF r.panic = "none" THEN "loop" ELSE "panicked"
  /\ UNCHANGED << overflow_checks, result, key_downs, events >>

NextKeys == LoadKeyRom \/ KeyDown \/ KeyUp \/ Step \/ Draw

SpecKeys == Init /\ [][NextKeys]_vars

(***************************************************************************)
(* C28: EX9E and EXA1 with VX in 0..15 advance PC by 4 exactly when key VX *)
(* is down (EX9E) or up (EXA1) and by 2 otherwise, and never modify the    *)
(* key table; with VX above 15 the step is fatal, on the range check of    *)
(* the key table, with PC and key table as they were.                      *)
(***************************************************************************)
\* this step runs emulate on an EX9E or EXA1 at pc
KeySkipStep ==
  /\ StepTaken
  /\ my_chip8.key_to_wait_reg = None
  /\ my_chip8.pc <= MEM_SIZE - 2
  /\ OpFamily(WordAt(my_chip8, my_chip8.pc)) = 14
  /\ OpNN(WordAt(my_chip8, my_chip8.pc)) \in { \h9E, \hA1 }

C28_KeySkips ==
  [][ KeySkipStep
        => LET w == WordAt(my_chip8, my_chip8.pc)
               k == my_chip8.v[OpX(w)]
           IN  /\ my_chip8'.key = my_chip8.key
               /\ IF k \in 0..15
                  THEN /\ result' = "Executed"
                       /\ my_chip8'.pc =
                            IF (OpNN(w) = \h9E) <=> (my_chip8.key[k] # 0)
                            THEN my_chip8.pc + 4 ELSE my_chip8.pc + 2
                  ELSE /\ result' = "Fatal"
                       /\ panic' = IndexOutOfBounds
                       /\ my_chip8'.pc = my_chip8.pc ]_vars

\* E09E at 0x202 has found key V0 = 1 down and skipped the word at 0x204
C28_Witness ==
  /\ result = "Executed"
  /\ my_chip8.opcode = \hE09E
  /\ my_chip8.v[0] = 1
  /\ my_chip8.key[1] = 1
  /\ my_chip8.key[0] = 0
  /\ my_chip8.pc = PC_START + 6
=============================================================================
